---------------------------- MODULE Spec2Model ----------------------------
(***************************************************************************)
(* Model of scraper.py: the paginated registry aggregation                 *)
(* (get_companies, format_results, get_companies_listing), the director    *)
(* cleanup/enrichment pass (results_cleanup_and_enrich with the external   *)
(* classifier identify_turkish_names) and the CSV export (write_csv).      *)
(*                                                                         *)
(* Python values: a dict is a function from its keys (strings) to values,  *)
(* a list is a sequence.  Where one variable may hold a dict or a list the *)
(* value is tagged [py |-> "dict" | "list" | ..., v |-> value].  None is   *)
(* the string None.  Code points outside ASCII in string literals are      *)
(* written <hex>, one <..> per code point.                                 *)
(***************************************************************************)
EXTENDS Integers, Sequences, FiniteSets, TLC

VARIABLES
    \* get_companies_listing
    l_pc,                \* "idle" | "start" | "loop" | "done"
    requested,           \* page numbers passed to get_companies, in call order
    responses,           \* what the registry answered to each request
    total_pages,         \* local total_pages
    page_num,            \* loop variable page_num
    all_results,         \* local all_results
    listing,             \* the value get_companies_listing returned
    \* results_cleanup_and_enrich
    e_pc,                \* "idle" | "start" | "classify" | "done"
    companies,           \* the argument as the caller passed it
    check_turkish_names, \* the argument check_turkish_names
    cleaned,             \* local cleaned
    all_dirigeants,      \* local all_dirigeants (the flat list)
    classifier,          \* outcome of the identify_turkish_names call
    classifier_calls,    \* number of identify_turkish_names calls
    enriched,            \* the value results_cleanup_and_enrich returned
    \* write_csv
    w_pc,                \* "idle" | "start" | "rows" | "done"
    csv_companies,       \* the argument companies of write_csv
    company_idx,         \* position of the outer loop of write_csv
    csvfile              \* the rows written so far, each a sequence of cells

listingVars == <<l_pc, requested, responses, total_pages, page_num, all_results, listing>>
enrichVars  == <<e_pc, companies, check_turkish_names, cleaned, all_dirigeants,
                 classifier, classifier_calls, enriched>>
csvVars     == <<w_pc, csv_companies, company_idx, csvfile>>
vars        == <<listingVars, enrichVars, csvVars>>

---------------------------------------------------------------------------
(* Bounds of the model *)

MaxPages == 3
MaxPerPage == 2
MaxCompanies == 2
MaxDirs == 2
MaxResults == 2

---------------------------------------------------------------------------
(* Python values *)

None == "<None>"
EmptyDict == <<>>

\* dict.get(k, default)
Get(d, k, default) == IF k \in DOMAIN d THEN d[k] ELSE default

PyDict(d) == [py |-> "dict", v |-> d]
PyList(s) == [py |-> "list", v |-> s]
PyRaise == [py |-> "raise", v |-> <<>>]
NoReturn == [py |-> "none", v |-> <<>>]

SeqsUpTo(S, n) == UNION {[1..k -> S] : k \in 0..n}

RECURSIVE Flatten(_)
Flatten(ss) == IF ss = <<>> THEN <<>> ELSE Head(ss) \o Flatten(Tail(ss))

RECURSIVE SumSeq(_)
SumSeq(s) == IF s = <<>> THEN 0 ELSE Head(s) + SumSeq(Tail(s))

---------------------------------------------------------------------------
(* Directors as the registry returns them *)

PERSONNE_PHYSIQUE == "personne physique"
LIQUIDATEUR == "Liquidateur"
CAC_TITULAIRE == "Commissaire aux comptes titulaire"
\* the role as the registry spells it: "suppl" U+00E9 "ant"
CAC_SUPPLEANT == "Commissaire aux comptes suppl<e9>ant"

\* The literal of the source is the bytes c3 83 c2 a9 between "suppl" and
\* "ant": the two code points U+00C3 U+00A9, not U+00E9.
FILTRE_QUALITE ==
    { "Liquidateur",
      "Commissaire aux comptes titulaire",
      "Commissaire aux comptes suppl<c3><a9>ant" }

DirGerant ==
    [nom |-> "YILMAZ", prenoms |-> "ALI", type_dirigeant |-> PERSONNE_PHYSIQUE,
     qualite |-> "G<e9>rant", date_de_naissance |-> "1980-01",
     nationalite |-> "Turque"]
\* other names, same concatenation nom + prenoms as DirGerant; carries an
\* origin flag from before the run and has no qualite
DirSplitName ==
    [nom |-> "YIL", prenoms |-> "MAZALI", type_dirigeant |-> PERSONNE_PHYSIQUE,
     origine_turque |-> TRUE]
DirPresident ==
    [nom |-> "DUPONT", prenoms |-> "JEAN", type_dirigeant |-> PERSONNE_PHYSIQUE,
     qualite |-> "Pr<e9>sident", nationalite |-> "Fran<e7>aise"]
DirLiquidateur ==
    [nom |-> "KAYA", prenoms |-> "MEHMET", type_dirigeant |-> PERSONNE_PHYSIQUE,
     qualite |-> LIQUIDATEUR]
DirTitulaire ==
    [nom |-> "DEMIR", prenoms |-> "AYSE", type_dirigeant |-> PERSONNE_PHYSIQUE,
     qualite |-> CAC_TITULAIRE]
\* no prenoms
DirSuppleant ==
    [nom |-> "MARTIN", type_dirigeant |-> PERSONNE_PHYSIQUE,
     qualite |-> CAC_SUPPLEANT]
DirMorale ==
    [denomination |-> "HOLDING SAS", type_dirigeant |-> "personne morale",
     qualite |-> "Pr<e9>sident"]

RawDirigeants ==
    {DirGerant, DirSplitName, DirPresident, DirLiquidateur, DirTitulaire,
     DirSuppleant, DirMorale}

---------------------------------------------------------------------------
(* The registry: raw company objects and the answers to one page request *)

RawFull ==
    [siren |-> "111111111", nom_complet |-> "ALPHA BTP",
     nom_raison_sociale |-> "ALPHA", activite_principale |-> "43.99A",
     dirigeants |-> <<DirGerant, DirLiquidateur>>,
     siege |-> [adresse |-> "1 RUE A 75001 PARIS", code_postal |-> "75001",
                libelle_commune |-> "PARIS", siret |-> "11111111100011"],
     date_creation |-> "2010-05-01", nature_juridique |-> "5499",
     etat_administratif |-> "A"]
\* no nom_complet, no dirigeants, no date_creation, a siege without adresse
RawSparse ==
    [siren |-> "222222222", nom_raison_sociale |-> "BETA",
     activite_principale |-> "43.99A",
     siege |-> [code_postal |-> "75002"],
     nature_juridique |-> "5710"]

RawCompanies == {RawFull, RawSparse}

PageResults == SeqsUpTo(RawCompanies, MaxPerPage)

\* decoded JSON objects of a successful answer that reports one of tps as
\* total_pages, or has no key at all
Payloads(tps) ==
    {EmptyDict}
    \cup {[total_pages |-> tp, results |-> r] : tp \in tps, r \in PageResults}

\* decoded JSON objects with results and without total_pages
PayloadsWithoutTotal == {[results |-> r] : r \in PageResults}

\* requests.get raised, raise_for_status raised or the body is no JSON
HttpError == [status |-> "error", json |-> NoReturn]
\* a JSON body that is an array, not an object
NonObject == [status |-> "ok", json |-> PyList(<<>>)]

Responses(tps) ==
    {HttpError, NonObject}
    \cup {[status |-> "ok", json |-> PyDict(p)] : p \in Payloads(tps)}

\* the answers to the request of page 1: any total_pages, or none
FirstResponses ==
    Responses(0..MaxPages)
    \cup {[status |-> "ok", json |-> PyDict(p)] : p \in PayloadsWithoutTotal}

---------------------------------------------------------------------------
(* get_companies, format_results, get_companies_listing *)

get_companies_raises(resp) ==
    IF resp.status = "error" THEN PyRaise ELSE resp.json

get_companies(resp) ==
    IF resp.status = "error"
    THEN PyDict([results |-> <<>>, error |-> "request failed"])
    ELSE resp.json

format_company(company) ==
    [siren |-> Get(company, "siren", None),
     nom_complet |-> Get(company, "nom_complet", None),
     nom_raison_sociale |-> Get(company, "nom_raison_sociale", None),
     activite_principale |-> Get(company, "activite_principale", None),
     dirigeants |-> Get(company, "dirigeants", <<>>),
     adresse |-> Get(Get(company, "siege", EmptyDict), "adresse", ""),
     code_postal |-> Get(Get(company, "siege", EmptyDict), "code_postal", ""),
     libelle_commune |-> Get(Get(company, "siege", EmptyDict), "libelle_commune", ""),
     date_creation |-> Get(company, "date_creation", None),
     nature_juridique |-> Get(company, "nature_juridique", None)]

format_results(data) ==
    LET results == Get(data, "results", <<>>)
    IN  [i \in 1..Len(results) |-> format_company(results[i])]

ExtendFront(results, more) == more \o results

\* all_results.extend(...)
Extend(results, more) == results \o more

\* the except branch of get_companies_listing
ErrorList == PyList(<<[error |-> "exception"]>>)

Listing(results) == PyDict([results_count |-> Len(results), results |-> results])

\* lines 86-88, and 99-105 when there is one page
FetchFirstPage ==
    /\ l_pc = "start"
    /\ \E resp \in FirstResponses:
         LET data == get_companies(resp)
         IN  /\ requested' = Append(requested, 1)
             /\ responses' = Append(responses, resp)
             /\ IF data.py # "dict"
                THEN /\ listing' = ErrorList
                     /\ l_pc' = "done"
                     /\ UNCHANGED <<total_pages, page_num, all_results>>
                ELSE LET tp == Get(data.v, "total_pages", 1)
                         res == format_results(data.v)
                     IN  /\ total_pages' = tp
                         /\ all_results' = res
                         /\ IF tp > 1
                            THEN /\ page_num' = 2
                                 /\ l_pc' = "loop"
                                 /\ listing' = NoReturn
                            ELSE /\ page_num' = page_num
                                 /\ l_pc' = "done"
                                 /\ listing' = Listing(res)
    /\ UNCHANGED <<enrichVars, csvVars>>

\* one iteration of the loop of lines 92-97, and 99-105 after the last one;
\* the registry reports on every page the total_pages it reported on page 1
FetchNextPage ==
    /\ l_pc = "loop"
    /\ \E resp \in Responses({total_pages}):
         LET page_data == get_companies(resp)
         IN  /\ requested' = Append(requested, page_num)
             /\ responses' = Append(responses, resp)
             /\ IF page_data.py # "dict"
                THEN /\ listing' = ErrorList
                     /\ l_pc' = "done"
                     /\ UNCHANGED <<page_num, all_results>>
                ELSE LET res == Extend(all_results, format_results(page_data.v))
                     IN  /\ all_results' = res
                         /\ IF page_num < total_pages
                            THEN /\ page_num' = page_num + 1
                                 /\ l_pc' = "loop"
                                 /\ listing' = NoReturn
                            ELSE /\ page_num' = page_num
                                 /\ l_pc' = "done"
                                 /\ listing' = Listing(res)
    /\ UNCHANGED <<total_pages, enrichVars, csvVars>>

ListingIdle ==
    /\ l_pc = "idle" /\ requested = <<>> /\ responses = <<>> /\ total_pages = 1
    /\ page_num = 1 /\ all_results = <<>> /\ listing = NoReturn
EnrichIdle ==
    /\ e_pc = "idle" /\ companies = <<>> /\ check_turkish_names = FALSE
    /\ cleaned = <<>> /\ all_dirigeants = <<>> /\ classifier = NoReturn
    /\ classifier_calls = 0 /\ enriched = NoReturn
CsvIdle ==
    /\ w_pc = "idle" /\ csv_companies = <<>> /\ company_idx = 1 /\ csvfile = <<>>

InitListing ==
    /\ l_pc = "start" /\ requested = <<>> /\ responses = <<>> /\ total_pages = 1
    /\ page_num = 1 /\ all_results = <<>> /\ listing = NoReturn
    /\ EnrichIdle /\ CsvIdle

NextListing == FetchFirstPage \/ FetchNextPage

SpecListing == InitListing /\ [][NextListing]_vars

---------------------------------------------------------------------------
(* Properties of get_companies_listing *)

\* the request was answered with a JSON object
Succeeded(resp) == resp.status = "ok" /\ resp.json.py = "dict"

RawResults(resp) == Get(resp.json.v, "results", <<>>)

\* the normalized records of one answered page, in the page's order
PageRecords(resp) ==
    [i \in 1..Len(RawResults(resp)) |-> format_company(RawResults(resp)[i])]

OneToN(n) == [i \in 1..n |-> i]

IsErrorList(x) ==
    /\ x.py = "list"
    /\ Len(x.v) = 1
    /\ DOMAIN x.v[1] = {"error"}

\* C1: when page 1 reports total_pages = N >= 1 and every page is answered
\* with a JSON object, the pages requested are 1, 2, ..., N in that order,
\* each once; the returned results are the normalized records of page 1,
\* then page 2, ..., then page N, in-page order kept; results_count is the
\* length of results and the sum of the per-page result counts.
C1_PagesConcatenatedInOrder ==
    ( /\ l_pc = "done"
      /\ \A i \in DOMAIN responses : Succeeded(responses[i])
      /\ "total_pages" \in DOMAIN responses[1].json.v
      /\ responses[1].json.v.total_pages >= 1 )
    => LET N == responses[1].json.v.total_pages
       IN  /\ requested = OneToN(N)
           /\ Len(responses) = N
           /\ listing.py = "dict"
           /\ DOMAIN listing.v = {"results_count", "results"}
           /\ listing.v.results = Flatten([i \in 1..N |-> PageRecords(responses[i])])
           /\ listing.v.results_count = Len(listing.v.results)
           /\ listing.v.results_count
                = SumSeq([i \in 1..N |-> Len(RawResults(responses[i]))])

\* three pages with distinct contents, two records on page 1
C1_Witness ==
    /\ l_pc = "done"
    /\ Len(responses) = 3
    /\ \A i \in 1..3 : Succeeded(responses[i])
    /\ Get(responses[1].json.v, "total_pages", 1) = 3
    /\ RawResults(responses[1]) = <<RawFull, RawSparse>>
    /\ RawResults(responses[2]) = <<RawSparse>>
    /\ RawResults(responses[3]) = <<RawFull>>
    /\ listing.py = "dict"
    /\ listing.v.results_count = 4

\* C2: when a registry request fails with a transport error,
\* get_companies_listing returns the single-entry error list (one element
\* holding only an error descriptor), not a listing with results_count and
\* results.
C2_TransportErrorGivesErrorList ==
    ( /\ l_pc = "done"
      /\ \E i \in DOMAIN responses : responses[i] = HttpError )
    => IsErrorList(listing)

\* C10: a failed page request does not raise out of get_companies and does
\* not stop the aggregation: when page 1 is answered with total_pages = N and
\* every later request is answered or fails in transport, every page up to N
\* is requested and a normal listing is returned whose results are the
\* records of the answered pages in page order, a failed page giving none;
\* when the request of page 1 fails, no other page is requested.
C10_FailedPageIsSkipped ==
    /\ ( /\ l_pc = "done"
         /\ Succeeded(responses[1])
         /\ "total_pages" \in DOMAIN responses[1].json.v
         /\ responses[1].json.v.total_pages >= 1
         /\ \A i \in DOMAIN responses :
              responses[i] = HttpError \/ Succeeded(responses[i]) )
       => LET N == responses[1].json.v.total_pages
          IN  /\ requested = OneToN(N)
              /\ Len(responses) = N
              /\ listing.py = "dict"
              /\ listing.v.results
                   = Flatten([i \in 1..N |->
                        IF Succeeded(responses[i]) THEN PageRecords(responses[i])
                                                   ELSE <<>>])
              /\ listing.v.results_count = Len(listing.v.results)
    /\ ( /\ l_pc = "done"
         /\ responses[1] = HttpError )
       => requested = <<1>>

\* page 2 of 3 fails, pages 1 and 3 are answered with records
C10_Witness ==
    /\ l_pc = "done"
    /\ Len(responses) = 3
    /\ Succeeded(responses[1])
    /\ RawResults(responses[1]) = <<RawSparse>>
    /\ responses[2] = HttpError
    /\ Succeeded(responses[3])
    /\ RawResults(responses[3]) = <<RawFull, RawSparse>>
    /\ requested = <<1, 2, 3>>
    /\ listing.py = "dict"
    /\ listing.v.results_count = 3

---------------------------------------------------------------------------
(* results_cleanup_and_enrich *)

\* hashlib.md5(s.encode("utf-8")).hexdigest()[:8], tabulated on the
\* concatenations nom + prenoms of RawDirigeants
Md5Hex8(s) ==
    CASE s = "YILMAZALI"  -> "75eb47ce"
      [] s = "DUPONTJEAN" -> "9930df9e"
      [] s = "KAYAMEHMET" -> "eb182cf0"
      [] s = "DEMIRAYSE"  -> "2b33b13c"
      [] s = "MARTIN"     -> "e278b4ce"
      [] s = ""           -> "d41d8cd9"

\* the condition of the list comprehension
KeepDirigeant(d) ==
    /\ Get(d, "type_dirigeant", None) = PERSONNE_PHYSIQUE
    /\ Get(d, "qualite", None) \notin FILTRE_QUALITE

\* dirigeant["id"] = md5(nom + prenoms)[:8]
WithId(d) ==
    LET unique_str == Get(d, "nom", "") \o Get(d, "prenoms", "")
    IN  [k \in DOMAIN d \cup {"id"} |->
            IF k = "id" THEN Md5Hex8(unique_str) ELSE d[k]]

\* the entry appended to all_dirigeants
FlatEntry(d) ==
    [id |-> d["id"], nom |-> Get(d, "nom", ""), prenoms |-> Get(d, "prenoms", "")]

\* the filtered dirigeants of one company, each with its id
Dirigeants(company) ==
    LET kept == SelectSeq(Get(company, "dirigeants", <<>>), KeepDirigeant)
    IN  [j \in 1..Len(kept) |-> WithId(kept[j])]

\* one iteration of the first loop: the entry appended to cleaned
CleanCompany(company) ==
    IF "error" \in DOMAIN company
    THEN company
    ELSE [k \in DOMAIN company \cup {"dirigeants"} |->
            IF k = "dirigeants" THEN Dirigeants(company) ELSE company[k]]

\* what one iteration of the first loop appends to all_dirigeants
FlatOfCompany(company) ==
    IF "error" \in DOMAIN company
    THEN <<>>
    ELSE [j \in 1..Len(Dirigeants(company)) |-> FlatEntry(Dirigeants(company)[j])]

NeedsClassifierWhenNonEmpty(check, flat) == flat # <<>>

\* check_turkish_names is set and all_dirigeants is not empty
NeedsClassifier(check, flat) == check /\ flat # <<>>

MatchOriginAnyMatch(turkish_origins, id) ==
    \E i \in DOMAIN turkish_origins : turkish_origins[i].id = id

\* next((item for item in turkish_origins if item.id == id), None), then the
\* value given to dirigeant["origine_turque"]
MatchOrigin(turkish_origins, id) ==
    LET hits == {i \in DOMAIN turkish_origins : turkish_origins[i].id = id}
    IN  IF hits = {}
        THEN FALSE
        ELSE turkish_origins[CHOOSE i \in hits : \A h \in hits : i <= h].origine_turque

\* the inner loop of the join, for one entry of cleaned
JoinCompany(company, turkish_origins) ==
    IF "dirigeants" \notin DOMAIN company
    THEN company
    ELSE [company EXCEPT !.dirigeants =
            [j \in 1..Len(company.dirigeants) |->
                LET d == company.dirigeants[j]
                IN  [k \in DOMAIN d \cup {"origine_turque"} |->
                        IF k = "origine_turque"
                        THEN MatchOrigin(turkish_origins, d["id"])
                        ELSE d[k]]]]

\* what identify_turkish_names may return: results in any order, with
\* repeated or missing ids
OrigineTurc == [id : {"75eb47ce", "9930df9e"}, origine_turque : BOOLEAN]
ClassifierResults == SeqsUpTo(OrigineTurc, MaxResults)

\* lines 142-165, the test of lines 167-171, and line 189 when the
\* classifier is not called
Cleanup ==
    /\ e_pc = "start"
    /\ LET new_cleaned == [i \in 1..Len(companies) |-> CleanCompany(companies[i])]
           flat == Flatten([i \in 1..Len(companies) |-> FlatOfCompany(companies[i])])
       IN  /\ cleaned' = new_cleaned
           /\ all_dirigeants' = flat
           /\ IF NeedsClassifier(check_turkish_names, flat)
              THEN /\ e_pc' = "classify"
                   /\ enriched' = NoReturn
              ELSE /\ e_pc' = "done"
                   /\ enriched' = PyList(new_cleaned)
    /\ UNCHANGED <<companies, check_turkish_names, classifier, classifier_calls>>
    /\ UNCHANGED <<listingVars, csvVars>>

\* lines 172-186 and 189: the classifier answers
ClassifyReturns ==
    /\ e_pc = "classify"
    /\ \E turkish_origins \in ClassifierResults :
         LET joined == [i \in 1..Len(cleaned) |-> JoinCompany(cleaned[i], turkish_origins)]
         IN  /\ classifier' = PyList(turkish_origins)
             /\ cleaned' = joined
             /\ enriched' = PyList(joined)
    /\ classifier_calls' = classifier_calls + 1
    /\ e_pc' = "done"
    /\ UNCHANGED <<companies, check_turkish_names, all_dirigeants>>
    /\ UNCHANGED <<listingVars, csvVars>>

ClassifyRaisesUncaught ==
    /\ e_pc = "classify"
    /\ classifier' = PyRaise
    /\ classifier_calls' = classifier_calls + 1
    /\ enriched' = PyRaise
    /\ e_pc' = "done"
    /\ UNCHANGED <<companies, check_turkish_names, cleaned, all_dirigeants>>
    /\ UNCHANGED <<listingVars, csvVars>>

\* lines 172 and 187-189: identify_turkish_names raises
ClassifyRaises ==
    /\ e_pc = "classify"
    /\ classifier' = PyRaise
    /\ classifier_calls' = classifier_calls + 1
    /\ enriched' = PyList(cleaned)
    /\ e_pc' = "done"
    /\ UNCHANGED <<companies, check_turkish_names, cleaned, all_dirigeants>>
    /\ UNCHANGED <<listingVars, csvVars>>

\* The entries of the argument: the error descriptor of the aggregator, a
\* company record without a dirigeants key, and normalized company records
\* with up to t directors.
ErrorEntry == [error |-> "exception"]

CompanyAt(i) == IF i % 2 = 1 THEN format_company(RawFull) ELSE format_company(RawSparse)

WithoutDirigeants(company) == [k \in DOMAIN company \ {"dirigeants"} |-> company[k]]

Entries(pool, i, t) ==
    {ErrorEntry, WithoutDirigeants(CompanyAt(i))}
    \cup {[CompanyAt(i) EXCEPT !.dirigeants = ds] : ds \in SeqsUpTo(pool, t)}

NDirs(entry) == Len(Get(entry, "dirigeants", <<>>))

\* the lists of at most c entries, from position i on, holding at most t
\* directors of pool in all
RECURSIVE CompanyLists(_, _, _, _)
CompanyLists(pool, i, c, t) ==
    IF c = 0
    THEN {<<>>}
    ELSE {<<>>} \cup
         UNION { { <<e>> \o rest : rest \in CompanyLists(pool, i + 1, c - 1, t - NDirs(e)) }
                 : e \in Entries(pool, i, t) }

InitEnrich ==
    /\ e_pc = "start"
    /\ companies \in CompanyLists(RawDirigeants, 1, MaxCompanies, MaxDirs)
    /\ check_turkish_names \in BOOLEAN
    /\ cleaned = <<>> /\ all_dirigeants = <<>> /\ classifier = NoReturn
    /\ classifier_calls = 0 /\ enriched = NoReturn
    /\ ListingIdle /\ CsvIdle

NextEnrich == Cleanup \/ ClassifyReturns \/ ClassifyRaises

SpecEnrich == InitEnrich /\ [][NextEnrich]_vars

---------------------------------------------------------------------------
(* Properties of results_cleanup_and_enrich *)

IsCompany(entry) == "error" \notin DOMAIN entry

\* a director without the fields the run adds
Orig(d) == [k \in DOMAIN d \ {"id", "origine_turque"} |-> d[k]]

MapOrig(ds) == [j \in 1..Len(ds) |-> Orig(ds[j])]

\* the excluded roles as the registry spells them
ExcludedRoles == {LIQUIDATEUR, CAC_TITULAIRE, CAC_SUPPLEANT}

Qualifies(d) ==
    /\ Get(d, "type_dirigeant", None) = PERSONNE_PHYSIQUE
    /\ Get(d, "qualite", None) \notin ExcludedRoles

\* the directors of an entry of the argument that the filter of the code keeps
Survivors(entry) == SelectSeq(Get(entry, "dirigeants", <<>>), KeepDirigeant)

\* the director d of the result is the director s of the argument with its
\* id added and nothing else changed
SameButId(d, s) ==
    /\ DOMAIN d = DOMAIN s \cup {"id"}
    /\ \A k \in DOMAIN s \ {"id"} : d[k] = s[k]
    /\ d["id"] = Md5Hex8(Get(s, "nom", "") \o Get(s, "prenoms", ""))

\* C3: after the call, every company entry has as director list exactly the
\* directors of its input list, in order, that are "personne physique" and
\* whose qualite is not liquidator, certifying auditor or alternate auditor.
C3_OnlyQualifyingDirectorsKept ==
    (e_pc = "done" /\ enriched.py = "list")
    => \A i \in DOMAIN companies :
         IsCompany(companies[i])
         => MapOrig(enriched.v[i].dirigeants)
              = MapOrig(SelectSeq(Get(companies[i], "dirigeants", <<>>), Qualifies))

\* C4: no two entries of the flat list passed to the classifier carry the
\* same identifier.
C4_FlatListHasNoRepeatedId ==
    \A i, j \in DOMAIN all_dirigeants :
        i # j => all_dirigeants[i].id # all_dirigeants[j].id

\* C5: when the classifier call raises, the failure is not propagated: the
\* call returns a list with one entry per input entry in the same order,
\* every company keeps its company-level fields and all its filtered
\* directors with identifiers, and no origin flag is set or changed.
C5_ClassifierFailureKeepsData ==
    classifier.py = "raise"
    => /\ e_pc = "done"
       /\ enriched.py = "list"
       /\ Len(enriched.v) = Len(companies)
       /\ \A i \in DOMAIN companies :
            LET inp == companies[i]
                out == enriched.v[i]
            IN  IF ~IsCompany(inp)
                THEN out = inp
                ELSE /\ DOMAIN out = DOMAIN inp \cup {"dirigeants"}
                     /\ \A k \in DOMAIN inp \ {"dirigeants"} : out[k] = inp[k]
                     /\ Len(out.dirigeants) = Len(Survivors(inp))
                     /\ \A j \in DOMAIN out.dirigeants :
                          SameButId(out.dirigeants[j], Survivors(inp)[j])

\* the classifier raises on two entries, the first with a kept and a
\* filtered director, the second with a director flagged before the run
C5_Witness ==
    /\ e_pc = "done"
    /\ classifier.py = "raise"
    /\ check_turkish_names
    /\ Len(companies) = 2
    /\ Get(companies[1], "dirigeants", <<>>) = <<DirGerant, DirLiquidateur>>
    /\ enriched.py = "list"
    /\ Len(enriched.v[1].dirigeants) = 1
    /\ enriched.v[1].dirigeants[1]["id"] = "75eb47ce"
    /\ "origine_turque" \notin DOMAIN enriched.v[1].dirigeants[1]

\* C8: when check_turkish_names is set, the flat list is not empty and the
\* classifier answers, every director of every company of the result has a
\* boolean origin flag: the origine_turque of a result with the director's
\* id when there is one, FALSE when there is none.
C8_FlagJoinedById ==
    ( /\ e_pc = "done"
      /\ check_turkish_names
      /\ all_dirigeants # <<>>
      /\ classifier.py = "list" )
    => /\ enriched.py = "list"
       /\ \A i \in DOMAIN enriched.v :
            IsCompany(enriched.v[i])
            => \A j \in DOMAIN enriched.v[i].dirigeants :
                 LET d == enriched.v[i].dirigeants[j]
                     hits == {n \in DOMAIN classifier.v : classifier.v[n].id = d["id"]}
                 IN  /\ "origine_turque" \in DOMAIN d
                     /\ d.origine_turque \in BOOLEAN
                     /\ hits = {} => d.origine_turque = FALSE
                     /\ hits # {} => \E n \in hits :
                                       d.origine_turque = classifier.v[n].origine_turque

\* the results come in another order than the directors; one director is
\* matched to TRUE, one to FALSE
C8_Witness ==
    /\ e_pc = "done"
    /\ check_turkish_names
    /\ classifier.py = "list"
    /\ classifier.v = << [id |-> "9930df9e", origine_turque |-> FALSE],
                         [id |-> "75eb47ce", origine_turque |-> TRUE] >>
    /\ Len(companies) = 1
    /\ Get(companies[1], "dirigeants", <<>>) = <<DirGerant, DirPresident>>
    /\ enriched.v[1].dirigeants[1].origine_turque = TRUE
    /\ enriched.v[1].dirigeants[2].origine_turque = FALSE

NoSurvivor == \A i \in DOMAIN companies : IsCompany(companies[i]) => Survivors(companies[i]) = <<>>

\* C9: when check_turkish_names is not set or no director survives the
\* filter, the classifier is not called and every director of the result
\* has the origin flag it had before (none when it had none); when it is set
\* and a director survives, the classifier is called exactly once.
C9_ClassifierSkippedOrCalledOnce ==
    /\ classifier_calls <= 1
    /\ (e_pc = "done" /\ (~check_turkish_names \/ NoSurvivor))
       => /\ classifier_calls = 0
          /\ enriched.py = "list"
          /\ \A i \in DOMAIN companies :
               IsCompany(companies[i])
               => /\ Len(enriched.v[i].dirigeants) = Len(Survivors(companies[i]))
                  /\ \A j \in DOMAIN enriched.v[i].dirigeants :
                       SameButId(enriched.v[i].dirigeants[j], Survivors(companies[i])[j])
    /\ (e_pc = "done" /\ check_turkish_names /\ ~NoSurvivor)
       => classifier_calls = 1

\* check_turkish_names is not set; a director flagged before the run keeps
\* its flag, a director without flag gets none
C9_Witness ==
    /\ e_pc = "done"
    /\ ~check_turkish_names
    /\ classifier_calls = 0
    /\ Len(companies) = 1
    /\ Get(companies[1], "dirigeants", <<>>) = <<DirSplitName, DirGerant>>
    /\ enriched.v[1].dirigeants[1].origine_turque = TRUE
    /\ "origine_turque" \notin DOMAIN enriched.v[1].dirigeants[2]

---------------------------------------------------------------------------
(* write_csv *)

headers ==
    << "dirigeant_nom", "dirigeant_prenoms", "dirigeant_date_de_naissance",
       "dirigeant_qualite", "dirigeant_origine_turque", "dirigeant_nationalite",
       "siren", "nom_complet", "activite_principale", "adresse", "code_postal",
       "libelle_commune", "date_creation", "nature_juridique" >>

company_data(company) ==
    [siren |-> Get(company, "siren", ""),
     nom_complet |-> Get(company, "nom_complet", ""),
     activite_principale |-> Get(company, "activite_principale", ""),
     adresse |-> Get(company, "adresse", ""),
     code_postal |-> Get(company, "code_postal", ""),
     libelle_commune |-> Get(company, "libelle_commune", ""),
     date_creation |-> Get(company, "date_creation", ""),
     nature_juridique |-> Get(company, "nature_juridique", "")]

dirigeant_data(dirigeant) ==
    [dirigeant_nom |-> Get(dirigeant, "nom", ""),
     dirigeant_prenoms |-> Get(dirigeant, "prenoms", ""),
     dirigeant_date_de_naissance |-> Get(dirigeant, "date_de_naissance", ""),
     dirigeant_qualite |-> Get(dirigeant, "qualite", ""),
     dirigeant_origine_turque |-> Get(dirigeant, "origine_turque", FALSE)]

\* the text csv writes for a value: nothing for None, str() of a bool
CsvText(h, v) ==
    IF h = "dirigeant_origine_turque"
    THEN (IF v THEN "True" ELSE "False")
    ELSE (IF v = None THEN "" ELSE v)

\* DictWriter.writerow: one cell per fieldname, restval "" for a key the
\* row does not have (quoting and delimiters are not modelled)
writerow(row) ==
    [n \in 1..Len(headers) |->
        IF headers[n] \in DOMAIN row THEN CsvText(headers[n], row[headers[n]]) ELSE ""]

\* row = {**dirigeant_data, **company_data}
RowOf(company, dirigeant) == company_data(company) @@ dirigeant_data(dirigeant)

CompanyRowsAtLeastOne(company) ==
    LET ds == Get(company, "dirigeants", <<>>)
    IN  IF ds = <<>>
        THEN <<writerow(company_data(company))>>
        ELSE [j \in 1..Len(ds) |-> writerow(RowOf(company, ds[j]))]

\* the rows one iteration of the outer loop writes
CompanyRows(company) ==
    LET ds == Get(company, "dirigeants", <<>>)
    IN  [j \in 1..Len(ds) |-> writerow(RowOf(company, ds[j]))]

\* lines 211-216
WriteHeader ==
    /\ w_pc = "start"
    /\ csvfile' = <<headers>>
    /\ company_idx' = 1
    /\ w_pc' = "rows"
    /\ UNCHANGED csv_companies
    /\ UNCHANGED <<listingVars, enrichVars>>

\* one iteration of the loop of lines 219-247
WriteCompany ==
    /\ w_pc = "rows"
    /\ company_idx <= Len(csv_companies)
    /\ csvfile' = csvfile \o CompanyRows(csv_companies[company_idx])
    /\ company_idx' = company_idx + 1
    /\ UNCHANGED <<w_pc, csv_companies>>
    /\ UNCHANGED <<listingVars, enrichVars>>

\* the loop is over: the file is closed, line 248
CloseFile ==
    /\ w_pc = "rows"
    /\ company_idx > Len(csv_companies)
    /\ w_pc' = "done"
    /\ UNCHANGED <<csv_companies, company_idx, csvfile>>
    /\ UNCHANGED <<listingVars, enrichVars>>

\* directors as results_cleanup_and_enrich leaves them
EnrichedGerant == [k \in {"origine_turque"} |-> TRUE] @@ WithId(DirGerant)
EnrichedPresident == [k \in {"origine_turque"} |-> FALSE] @@ WithId(DirPresident)
EnrichedDirigeants ==
    {EnrichedGerant, EnrichedPresident, WithId(DirSplitName), WithId(DirSuppleant)}

InitCsv ==
    /\ w_pc = "start"
    /\ csv_companies \in CompanyLists(EnrichedDirigeants, 1, MaxCompanies, MaxDirs)
    /\ company_idx = 1
    /\ csvfile = <<>>
    /\ ListingIdle /\ EnrichIdle

NextCsv == WriteHeader \/ WriteCompany \/ CloseFile

SpecCsv == InitCsv /\ [][NextCsv]_vars

---------------------------------------------------------------------------
(* Properties of write_csv *)

\* the (company, director) pairs of a list, in company order then director
\* order
Pairs(cs) ==
    Flatten([i \in 1..Len(cs) |->
        [j \in 1..NDirs(cs[i]) |-> [company |-> cs[i], dirigeant |-> cs[i].dirigeants[j]]]])

HeaderIndex(h) == CHOOSE n \in DOMAIN headers : headers[n] = h

Cell(row, h) == row[HeaderIndex(h)]

\* a field as text, "" when it is missing or None
Shown(d, k) == IF k \in DOMAIN d /\ d[k] # None THEN d[k] ELSE ""

CompanyColumns ==
    {"siren", "nom_complet", "activite_principale", "adresse", "code_postal",
     "libelle_commune", "date_creation", "nature_juridique"}

\* C6: every data row has in its director columns the fields of the
\* director it was written for ("" for a missing field, false for a missing
\* origin flag) and in its company columns the fields of that director's
\* company, so the rows of one company agree on them.
C6_RowCarriesDirectorAndCompanyFields ==
    w_pc = "done"
    => /\ Len(csvfile) = 1 + Len(Pairs(csv_companies))
       /\ \A n \in DOMAIN Pairs(csv_companies) :
            LET row == csvfile[n + 1]
                c == Pairs(csv_companies)[n].company
                d == Pairs(csv_companies)[n].dirigeant
            IN  /\ Cell(row, "dirigeant_nom") = Shown(d, "nom")
                /\ Cell(row, "dirigeant_prenoms") = Shown(d, "prenoms")
                /\ Cell(row, "dirigeant_date_de_naissance") = Shown(d, "date_de_naissance")
                /\ Cell(row, "dirigeant_qualite") = Shown(d, "qualite")
                /\ Cell(row, "dirigeant_origine_turque")
                     = (IF Get(d, "origine_turque", FALSE) THEN "True" ELSE "False")
                /\ Cell(row, "dirigeant_nationalite") = Shown(d, "nationalite")
                /\ \A k \in CompanyColumns : Cell(row, k) = Shown(c, k)

\* C7: the file is one header row, then one data row per (company, director)
\* pair in company order then director order; the data rows number the sum
\* of the lengths of the director lists, so an entry without director, or an
\* error descriptor, has no row.
C7_OneRowPerDirector ==
    /\ w_pc # "start" => (csvfile # <<>> /\ csvfile[1] = headers)
    /\ w_pc = "done"
       => /\ Len(csvfile)
               = 1 + SumSeq([i \in 1..Len(csv_companies) |-> NDirs(csv_companies[i])])
          /\ \A n \in 2..Len(csvfile) : Len(csvfile[n]) = Len(headers)
          /\ \A n \in DOMAIN Pairs(csv_companies) :
               LET row == csvfile[n + 1]
                   c == Pairs(csv_companies)[n].company
                   d == Pairs(csv_companies)[n].dirigeant
               IN  /\ Cell(row, "siren") = Shown(c, "siren")
                   /\ Cell(row, "dirigeant_nom") = Shown(d, "nom")
                   /\ Cell(row, "dirigeant_prenoms") = Shown(d, "prenoms")

\* an error descriptor, then a company with two directors: header and two
\* rows, in director order
C7_Witness ==
    /\ w_pc = "done"
    /\ Len(csv_companies) = 2
    /\ csv_companies[1] = ErrorEntry
    /\ Get(csv_companies[2], "dirigeants", <<>>) = <<EnrichedPresident, EnrichedGerant>>
    /\ Len(csvfile) = 3
    /\ Cell(csvfile[2], "dirigeant_nom") = "DUPONT"
    /\ Cell(csvfile[3], "dirigeant_nom") = "YILMAZ"

===========================================================================
